---- MODULE Spec2Model ----
(***************************************************************************)
(* Model of centipede/symbol_table.cc: the symbol table (entries plus      *)
(* string interner), the llvm-symbolizer text codec, the per-DSO driver    *)
(* and the parallel dispatcher GetSymbolsFromBinary.                       *)
(*                                                                         *)
(* Text is modelled as a sequence of one-character strings so that         *)
(* splitting, prefix stripping and integer parsing are computed the way    *)
(* the code computes them.                                                 *)
(***************************************************************************)
EXTENDS Integers, Sequences, FiniteSets, TLC

\* ------------------------------------------------------------------ bounds

\* Largest number of entries the table under test may hold.
MaxEntries == 2
\* Largest number of complete records in one symbolizer stream.
MaxRecs == 2

\* ------------------------------------------------------------ text helpers

NL == "\n"

Min(a, b) == IF a <= b THEN a ELSE b

\* absl::StrContains(text, "?") for a one-character needle.
StrContains(s, c) == \E i \in DOMAIN s : s[i] = c

StartsWith(s, p) == Len(p) <= Len(s) /\ SubSeq(s, 1, Len(p)) = p

\* absl::StripPrefix
StripPrefix(s, p) == IF StartsWith(s, p) THEN SubSeq(s, Len(p) + 1, Len(s)) ELSE s

\* Index of the first occurrence of c in s at or after position i, or 0.
RECURSIVE Find(_, _, _)
Find(s, c, i) ==
  IF i > Len(s) THEN 0
  ELSE IF s[i] = c THEN i
  ELSE Find(s, c, i + 1)

\* absl::StrSplit(text, ':'): the empty text splits into one empty part.
RECURSIVE StrSplit(_, _)
StrSplit(s, c) ==
  LET k == Find(s, c, 1) IN
  IF k = 0 THEN << s >>
  ELSE << SubSeq(s, 1, k - 1) >> \o StrSplit(SubSeq(s, k + 1, Len(s)), c)

Digits == << "0", "1", "2", "3", "4", "5", "6", "7", "8", "9" >>

IsDigit(c) == \E d \in DOMAIN Digits : Digits[d] = c

DigitVal(c) == (CHOOSE d \in DOMAIN Digits : Digits[d] = c) - 1

IsSpace(c) == c \in {" ", "\t"}

RECURSIVE StripLeadingSpace(_)
StripLeadingSpace(s) ==
  IF s # << >> /\ IsSpace(s[1]) THEN StripLeadingSpace(Tail(s)) ELSE s

RECURSIVE StripTrailingSpace(_)
StripTrailingSpace(s) ==
  IF s # << >> /\ IsSpace(s[Len(s)])
  THEN StripTrailingSpace(SubSeq(s, 1, Len(s) - 1))
  ELSE s

Int32Max == 2147483647
Int32Min == (0 - Int32Max) - 1

\* Outcome of parsing a digit string: a value, or a failure.
BadDigit == [ok |-> FALSE, value |-> 0]

\* safe_parse_positive_int: accumulate left to right, failing on a character
\* that is no digit and on a value above the int maximum.
RECURSIVE ParsePositive(_, _)
ParsePositive(s, acc) ==
  IF s = << >> THEN [ok |-> TRUE, value |-> acc]
  ELSE IF ~IsDigit(s[1]) THEN BadDigit
  ELSE IF acc > Int32Max \div 10 THEN BadDigit
  ELSE IF acc * 10 > Int32Max - DigitVal(s[1]) THEN BadDigit
  ELSE ParsePositive(Tail(s), acc * 10 + DigitVal(s[1]))

\* safe_parse_negative_int: the same, accumulating downwards to the minimum.
RECURSIVE ParseNegative(_, _)
ParseNegative(s, acc) ==
  IF s = << >> THEN [ok |-> TRUE, value |-> acc]
  ELSE IF ~IsDigit(s[1]) THEN BadDigit
  ELSE IF acc < 0 - (Int32Max \div 10) THEN BadDigit
  ELSE IF acc * 10 < Int32Min + DigitVal(s[1]) THEN BadDigit
  ELSE ParseNegative(Tail(s), acc * 10 - DigitVal(s[1]))

\* absl::SimpleAtoi(text, &int): surrounding whitespace is skipped, one
\* optional sign, then at least one decimal digit, the value within int32.
SimpleAtoi(text) ==
  LET t == StripTrailingSpace(StripLeadingSpace(text))
      neg == t # << >> /\ t[1] = "-"
      signed == t # << >> /\ t[1] \in {"-", "+"}
      body == IF signed THEN Tail(t) ELSE t
  IN IF body = << >> THEN BadDigit
     ELSE IF neg THEN ParseNegative(body, 0)
     ELSE ParsePositive(body, 0)

\* Decimal text of a natural number.
RECURSIVE NatToStr(_)
NatToStr(n) ==
  IF n < 10 THEN << Digits[n + 1] >>
  ELSE NatToStr(n \div 10) \o << Digits[(n % 10) + 1] >>

\* absl::StrCat of an int.
IntToStr(n) == IF n < 0 THEN << "-" >> \o NatToStr(0 - n) ELSE NatToStr(n)

\* ------------------------------------------------------------ symbol table

\* A std::string_view held by an entry: the text it shows and the storage it
\* points into.  Storage is either the static literal (SetAllToUnknown) or a
\* node of an interner, named by the owning table's heap and a slot number.
StaticAddr == << "static", 0 >>

StaticRef(text) == [text |-> text, addr |-> StaticAddr]

\* Default member initialisers of Entry::line and Entry::col (header).
EntryDefaultLine == 0
EntryDefaultCol == 0

\* A freshly constructed SymbolTable whose interner allocates in `heap`.
EmptyTable(heap) == [heap |-> heap, entries_ |-> << >>, table_ |-> {}]

size(T) == Len(T.entries_)

\* The allocator hands out the lowest free slot of the heap, so storage freed
\* by clear() is reused.
FreshAddr(T) ==
  << T.heap, CHOOSE k \in 1..(Cardinality(T.table_) + 1) :
               /\ \A n \in T.table_ : n.addr[2] # k
               /\ \A j \in 1..(k - 1) : \E n \in T.table_ : n.addr[2] = j >>

\* Mutant: every call stores a new copy of the text.
GetOrInsertAlways(T, str) ==
  LET node == [text |-> str, addr |-> FreshAddr(T)]
  IN [T |-> [T EXCEPT !.table_ = @ \cup {node}], ref |-> node]

\* table_.insert(std::string{str}).first: the node already holding the text,
\* or a new node.
\* (The two arguments are bound to their values first, so that each is
\* computed once.)
GetOrInsert(T, str) ==
  LET Insert(t, s) ==
        IF \E n \in t.table_ : n.text = s
        THEN [T |-> t, ref |-> CHOOSE n \in t.table_ : n.text = s]
        ELSE LET node == [text |-> s, addr |-> FreshAddr(t)]
             IN [T |-> [t EXCEPT !.table_ = @ \cup {node}], ref |-> node]
  IN CHOOSE r \in {Insert(t, s) : t \in {T}, s \in {str}} : TRUE

\* entries_.emplace_back(Entry{GetOrInsert(func), GetOrInsert(file), line, col}):
\* a and b are the results of the two GetOrInsert calls, each computed once.
AddEntryInternal(T, func, file, line, col) ==
  LET Emplace(a) ==
        LET Back(b) ==
              [b.T EXCEPT !.entries_ =
                 Append(@, [func |-> a.ref, file |-> b.ref, line |-> line, col |-> col])]
        IN CHOOSE r \in {Back(b) : b \in {GetOrInsert(a.T, file)}} : TRUE
  IN CHOOSE r \in {Emplace(a) : a \in {GetOrInsert(T, func)}} : TRUE

\* Result of an operation that may hit a fatal CHECK: ok = FALSE means the
\* process aborted, and T is the table as the abort left it.
Ok(T) == [ok |-> TRUE, T |-> T]
Fatal(T) == [ok |-> FALSE, T |-> T]

\* The split and the two conversions of AddEntry, CHECKs aside.
SplitLocation(file_line_col) ==
  LET split == StrSplit(file_line_col, ":") IN
  [split |-> split,
   line |-> IF Len(split) >= 2 THEN SimpleAtoi(split[2]) ELSE [ok |-> TRUE, value |-> -1],
   col |-> IF Len(split) >= 3 THEN SimpleAtoi(split[3]) ELSE [ok |-> TRUE, value |-> -1]]

\* Mutant: a location with a "?" keeps only its file part.
AddEntryFilePart(T, func, file_line_col) ==
  LET p == SplitLocation(file_line_col) IN
  IF StrContains(file_line_col, "?")
  THEN Ok(AddEntryInternal(T, func, p.split[1], 0, 0))
  ELSE IF Len(p.split) > 3 \/ ~p.line.ok \/ ~p.col.ok THEN Fatal(T)
  ELSE Ok(AddEntryInternal(T, func, p.split[1], p.line.value, p.col.value))

\* Mutant: parts after the third are ignored instead of being fatal.
AddEntryIgnoresExtraParts(T, func, file_line_col) ==
  LET p == SplitLocation(file_line_col) IN
  IF StrContains(file_line_col, "?")
  THEN Ok(AddEntryInternal(T, func, file_line_col, 0, 0))
  ELSE IF ~p.line.ok \/ ~p.col.ok THEN Fatal(T)
  ELSE Ok(AddEntryInternal(T, func, p.split[1], p.line.value, p.col.value))

\* Mutant: the number of parts and the numeric fields are checked before the
\* "?" is looked for.
AddEntryChecksPartsFirst(T, func, file_line_col) ==
  LET p == SplitLocation(file_line_col) IN
  IF Len(p.split) > 3 \/ (~StrContains(file_line_col, "?") /\ (~p.line.ok \/ ~p.col.ok))
  THEN Fatal(T)
  ELSE IF StrContains(file_line_col, "?")
  THEN Ok(AddEntryInternal(T, func, file_line_col, 0, 0))
  ELSE Ok(AddEntryInternal(T, func, p.split[1], p.line.value, p.col.value))

\* Mutant: a missing line or column is stored as 0.
AddEntryZeroDefaults(T, func, file_line_col) ==
  LET p == SplitLocation(file_line_col) IN
  IF StrContains(file_line_col, "?")
  THEN Ok(AddEntryInternal(T, func, file_line_col, 0, 0))
  ELSE IF Len(p.split) > 3 \/ ~p.line.ok \/ ~p.col.ok THEN Fatal(T)
  ELSE Ok(AddEntryInternal(T, func, p.split[1],
                           IF Len(p.split) >= 2 THEN p.line.value ELSE 0,
                           IF Len(p.split) >= 3 THEN p.col.value ELSE 0))

AddEntry(T, func, file_line_col) ==
  IF StrContains(file_line_col, "?")
  THEN Ok(AddEntryInternal(T, func, file_line_col, 0, 0))
  ELSE
    LET split == StrSplit(file_line_col, ":")
        l == IF Len(split) >= 2 THEN SimpleAtoi(split[2])
             ELSE [ok |-> TRUE, value |-> -1]
        c == IF Len(split) = 3 THEN SimpleAtoi(split[3])
             ELSE [ok |-> TRUE, value |-> -1]
    IN IF Len(split) > 3 \/ Len(split) < 1 THEN Fatal(T)
       ELSE IF ~l.ok THEN Fatal(T)
       ELSE IF ~c.ok THEN Fatal(T)
       ELSE Ok(AddEntryInternal(T, func, split[1], l.value, c.value))

RECURSIVE AddEntriesFrom(_, _, _)
AddEntriesFrom(T, es, i) ==
  IF i > Len(es) THEN T
  ELSE AddEntriesFrom(
         AddEntryInternal(T, es[i].func.text, es[i].file.text, es[i].line, es[i].col),
         es, i + 1)

\* Mutant: the other table's entries are appended last to first.
RECURSIVE AddEntriesBackwards(_, _, _)
AddEntriesBackwards(T, es, i) ==
  IF i < 1 THEN T
  ELSE AddEntriesBackwards(
         AddEntryInternal(T, es[i].func.text, es[i].file.text, es[i].line, es[i].col),
         es, i - 1)

AddEntriesReversed(T, other) == AddEntriesBackwards(T, other.entries_, Len(other.entries_))

AddEntries(T, other) == AddEntriesFrom(T, other.entries_, 1)

\* Mutant: only the entries that resize() added are set to {"?", "?"}; the
\* entries kept keep their references while the interner is cleared.
SetAllToUnknownNewOnly(T, n) ==
  [T EXCEPT !.entries_ = [i \in 1..n |->
                            IF i <= Len(T.entries_) THEN T.entries_[i]
                            ELSE [func |-> StaticRef(<< "?" >>),
                                  file |-> StaticRef(<< "?" >>),
                                  line |-> EntryDefaultLine,
                                  col |-> EntryDefaultCol]],
            !.table_ = {}]

\* entries_.resize(size); every entry = {"?", "?"}; table_.clear()
SetAllToUnknown(T, n) ==
  [T EXCEPT !.entries_ = [i \in 1..n |->
                            [func |-> StaticRef(<< "?" >>),
                             file |-> StaticRef(<< "?" >>),
                             line |-> EntryDefaultLine,
                             col |-> EntryDefaultCol]],
            !.table_ = {}]

\* Entry::operator== compares the texts and the numbers, not the storage.
EntryValue(e) == << e.func.text, e.file.text, e.line, e.col >>

Values(T) == [i \in 1..Len(T.entries_) |-> EntryValue(T.entries_[i])]

\* SymbolTable::operator==
TableEq(A, B) == Values(A) = Values(B)

\* -------------------------------------------------------------- text codec

\* file_prefixes_to_remove, in the order the loop strips them.
ProcSelfCwd == << "/", "p", "r", "o", "c", "/", "s", "e", "l", "f", "/", "c", "w", "d", "/" >>
DotSlash == << ".", "/" >>

\* A std::istream over `data`: the read position and the eofbit and failbit.
OpenStream(data) == [data |-> data, pos |-> 1, eof |-> FALSE, fail |-> FALSE]

\* std::getline into a freshly constructed (empty) string.  A stream that is
\* not good() sets failbit and extracts nothing; otherwise the characters up
\* to the next newline are extracted and the newline discarded; reaching the
\* end sets eofbit, and failbit too when nothing was extracted.
getline(st) ==
  IF st.eof \/ st.fail
  THEN [st |-> [st EXCEPT !.fail = TRUE], str |-> << >>]
  ELSE LET k == Find(st.data, NL, st.pos) IN
       IF k # 0
       THEN [st |-> [st EXCEPT !.pos = k + 1],
             str |-> SubSeq(st.data, st.pos, k - 1)]
       ELSE LET rest == SubSeq(st.data, st.pos, Len(st.data)) IN
            [st |-> [st EXCEPT !.pos = Len(st.data) + 1, !.eof = TRUE,
                               !.fail = (rest = << >>)],
             str |-> rest]

\* Mutant: the record is added before the stream's state is looked at.
RECURSIVE ReadLoopKeepsPartial(_, _)
ReadLoopKeepsPartial(T, in) ==
  IF in.fail THEN Ok(T)
  ELSE LET f == getline(in)
           l == getline(f.st)
           e == getline(l.st)
           file == StripPrefix(StripPrefix(l.str, ProcSelfCwd), DotSlash)
           r == AddEntry(T, f.str, file)
       IN IF e.str # << >> THEN Fatal(T)
          ELSE IF ~r.ok THEN Fatal(r.T)
          ELSE IF e.st.fail THEN Ok(r.T)
          ELSE ReadLoopKeepsPartial(r.T, e.st)

RECURSIVE ReadLoop(_, _)
ReadLoop(T, in) ==
  IF in.fail THEN Ok(T)
  ELSE LET f == getline(in)
           l == getline(f.st)
           e == getline(l.st)
           file == StripPrefix(StripPrefix(l.str, ProcSelfCwd), DotSlash)
           r == AddEntry(T, f.str, file)
       IN IF e.str # << >> THEN Fatal(T)
          ELSE IF e.st.fail THEN Ok(T)
          ELSE IF ~r.ok THEN Fatal(r.T)
          ELSE ReadLoop(r.T, e.st)

ReadFromLLVMSymbolizer(T, data) == ReadLoop(T, OpenStream(data))

\* Entry::file_line_col() (header): file, line and column joined by ':'.
file_line_col(e) ==
  e.file.text \o << ":" >> \o IntToStr(e.line) \o << ":" >> \o IntToStr(e.col)

RECURSIVE WriteFrom(_, _)
WriteFrom(es, i) ==
  IF i > Len(es) THEN << >>
  ELSE es[i].func.text \o << NL >> \o file_line_col(es[i]) \o << NL >> \o << NL >>
       \o WriteFrom(es, i + 1)

\* Mutant: no blank line is written after a record.
RECURSIVE WriteFromNoBlank(_, _)
WriteFromNoBlank(es, i) ==
  IF i > Len(es) THEN << >>
  ELSE es[i].func.text \o << NL >> \o file_line_col(es[i]) \o << NL >>
       \o WriteFromNoBlank(es, i + 1)

WriteWithoutSeparator(T) == WriteFromNoBlank(T.entries_, 1)

WriteToLLVMSymbolizer(T) == WriteFrom(T.entries_, 1)

\* ------------------------------------------------------------------ inputs

foo == << "f", "o", "o" >>
bar == << "b", "a", "r" >>
LocA == << "/", "s", "r", "c", "/", "a", ".", "c", ":", "1", "0", ":", "3" >>
LocB == << "/", "s", "r", "c", "/", "b", ".", "c", ":", "?" >>
LocFileOnly == << "a", ".", "c" >>
LocFileLine == << "a", ".", "c", ":", "7" >>
LocDotSlash == << ".", "/", "a", ".", "c", ":", "7", ":", "1" >>
LocCwd == << "/", "p", "r", "o", "c", "/", "s", "e", "l", "f", "/", "c", "w", "d", "/", "a", ".", "c", ":", "7", ":", "1" >>
LocUnknown == << "?" >>
LocManyParts == << "a", ".", "c", ":", "x", ":", "1", ":", "2", ":", "?" >>
LocNegCol == << "a", ".", "c", ":", "7", ":", "-", "2" >>
LocFourParts == << "a", ".", "c", ":", "7", ":", "1", ":", "2" >>
LocBadLine == << "a", ".", "c", ":", "x" >>
LocEmptyCol == << "a", ".", "c", ":", "7", ":" >>
LocBigCol == << "a", ".", "c", ":", "7", ":", "9", "9", "9", "9", "9", "9", "9", "9", "9", "9", "9" >>
LocBadCol == << "a", ".", "c", ":", "7", ":", "1", "x" >>
FileA == << "/", "s", "r", "c", "/", "a", ".", "c" >>
FileB == << "/", "s", "r", "c", "/", "b", ".", "c" >>
TailBlank == << "\n" >>
TailTwoBlank == << "\n", "\n" >>
TailFunc == << "b", "a", "r" >>
TailFuncNl == << "b", "a", "r", "\n" >>
TailFuncLoc == << "b", "a", "r", "\n", "a", ".", "c", ":", "7" >>
TailFuncLocNl == << "b", "a", "r", "\n", "a", ".", "c", ":", "7", "\n" >>
TailBadLoc == << "b", "a", "r", "\n", "a", ".", "c", ":", "x", ":", "y", ":", "z", ":", "w" >>
TailThirdLine == << "b", "a", "r", "\n", "a", ".", "c", ":", "7", "\n", "x" >>
TailThirdLineNl == << "b", "a", "r", "\n", "a", ".", "c", ":", "7", "\n", "x", "\n" >>

\* Function names handed to AddEntry.
Funcs == {foo, bar}

\* Locations that AddEntry accepts without a "?" in them.
PlainLocs == {LocA, LocFileOnly, LocFileLine, LocDotSlash, LocNegCol}

\* Locations with a "?" in them.
UnknownLocs == {LocB, LocUnknown, LocManyParts}

\* Locations that violate the format: too many parts, or a line or column
\* field that is no integer (empty, not numeric, out of range).
BadLocs == {LocFourParts, LocBadLine, LocEmptyCol, LocBigCol, LocBadCol}

Locs == PlainLocs \cup UnknownLocs \cup BadLocs

\* Records a symbolizer stream is made of.
Rec(func, loc) == [func |-> func, loc |-> loc]

GoodRecords == {Rec(foo, LocA), Rec(bar, LocB), Rec(foo, LocCwd)}

Records == GoodRecords \cup {Rec(bar, LocFourParts)}

\* What may follow the last complete record: nothing, or an incomplete record
\* of fewer than three lines.
ShortTails ==
  {<< >>, TailBlank, TailTwoBlank, TailFunc, TailFuncNl, TailFuncLoc, TailFuncLocNl,
   TailBadLoc}

\* A third line that is not empty, with and without its newline.
LongTails == {TailThirdLine, TailThirdLineNl}

Tails == ShortTails \cup LongTails

\* The text of a stream: each record as its three lines, then the tail.
RECURSIVE Encode(_)
Encode(recs) ==
  IF recs = << >> THEN << >>
  ELSE Head(recs).func \o << NL >> \o Head(recs).loc \o << NL >> \o << NL >>
       \o Encode(Tail(recs))

SeqsUpTo(S, n) == UNION {[1..k -> S] : k \in 0..n}

\* Tables handed to AddEntries as `other`, each with an interner of its own.
OtherEmpty == EmptyTable("other")
OtherUnknown == SetAllToUnknown(EmptyTable("other"), 1)
OtherOne == AddEntry(EmptyTable("other"), foo, LocA).T
OtherTwo == AddEntry(AddEntry(EmptyTable("other"), foo, LocA).T, foo, LocB).T

Others == {OtherEmpty, OtherUnknown, OtherOne, OtherTwo}

\* ------------------------------------------------------------------- state

VARIABLES
  st,               \* the SymbolTable under test (*this)
  out,              \* the text WriteToLLVMSymbolizer wrote
  rt,               \* the table read back from `out`
  last,             \* the last operation called and its arguments
  pc,               \* where the calling thread is
  fatal,            \* a CHECK failed: the process has aborted
  symbolizer_path,  \* GetSymbolsFromBinary's arguments ...
  pc_table,
  dso_table,
  symbol_tables,    \* ... and its locals
  pc_idx_begin,
  dso_id,
  tasks,            \* the thread pool's tasks, one per scheduled DSO
  unique_id         \* the static counter of GetSymbolsFromOneDso

tableVars == << st, out, rt, last >>

binaryVars == << symbolizer_path, pc_table, dso_table, symbol_tables,
                 pc_idx_begin, dso_id, tasks, unique_id >>

vars == << st, out, rt, last, pc, fatal, symbolizer_path, pc_table, dso_table,
           symbol_tables, pc_idx_begin, dso_id, tasks, unique_id >>

\* The record kept in `last`: the operation and the arguments it was given.
Call(op, func, loc, n, recs, tail, other) ==
  [op |-> op, func |-> func, loc |-> loc, n |-> n, recs |-> recs,
   tail |-> tail, other |-> other]

NoCall == Call("none", << >>, << >>, 0, << >>, << >>, OtherEmpty)

\* GetSymbolsFromBinary is not running.
BinaryIdle ==
  /\ symbolizer_path = ""
  /\ pc_table = << >>
  /\ dso_table = << >>
  /\ symbol_tables = << >>
  /\ pc_idx_begin = 0
  /\ dso_id = 0
  /\ tasks = << >>
  /\ unique_id = 0

\* ------------------------------------------- the table's operations (Spec)

\* A table after construction; the caller is about to call its operations.
Init ==
  /\ st = EmptyTable("this")
  /\ out = << >>
  /\ rt = EmptyTable("copy")
  /\ last = NoCall
  /\ pc = "ops"
  /\ fatal = FALSE
  /\ BinaryIdle

\* The effect of a call that may abort on the table and the process.
Returns(r) ==
  /\ st' = r.T
  /\ fatal' = ~r.ok

DoAddEntry ==
  /\ pc = "ops" /\ ~fatal
  /\ size(st) < MaxEntries
  /\ \E func \in Funcs, loc \in Locs :
       /\ Returns(AddEntry(st, func, loc))
       /\ last' = Call("AddEntry", func, loc, 0, << >>, << >>, OtherEmpty)
  /\ UNCHANGED << out, rt, pc, binaryVars >>

DoAddEntries ==
  /\ pc = "ops" /\ ~fatal
  /\ \E other \in Others :
       /\ size(st) + size(other) <= MaxEntries
       /\ st' = AddEntries(st, other)
       /\ last' = Call("AddEntries", << >>, << >>, 0, << >>, << >>, other)
  /\ UNCHANGED << out, rt, pc, fatal, binaryVars >>

DoSetAllToUnknown ==
  /\ pc = "ops" /\ ~fatal
  /\ \E n \in 0..MaxEntries :
       /\ st' = SetAllToUnknown(st, n)
       /\ last' = Call("SetAllToUnknown", << >>, << >>, n, << >>, << >>, OtherEmpty)
  /\ UNCHANGED << out, rt, pc, fatal, binaryVars >>

DoReadFromLLVMSymbolizer ==
  /\ pc = "ops" /\ ~fatal
  /\ \E recs \in SeqsUpTo(Records, MaxRecs), tail \in Tails :
       /\ size(st) + Len(recs) <= MaxEntries
       /\ Returns(ReadFromLLVMSymbolizer(st, Encode(recs) \o tail))
       /\ last' = Call("Read", << >>, << >>, 0, recs, tail, OtherEmpty)
  /\ UNCHANGED << out, rt, pc, binaryVars >>

DoWriteToLLVMSymbolizer ==
  /\ pc = "ops" /\ ~fatal
  /\ out' = WriteToLLVMSymbolizer(st)
  /\ pc' = "written"
  /\ last' = Call("Write", << >>, << >>, 0, << >>, << >>, OtherEmpty)
  /\ UNCHANGED << st, rt, fatal, binaryVars >>

\* The text just written is read into a freshly constructed table.
DoReadBack ==
  /\ pc = "written" /\ ~fatal
  /\ LET r == ReadFromLLVMSymbolizer(EmptyTable("copy"), out) IN
       /\ rt' = r.T
       /\ fatal' = ~r.ok
  /\ pc' = "readback"
  /\ last' = Call("ReadBack", << >>, << >>, 0, << >>, << >>, OtherEmpty)
  /\ UNCHANGED << st, out, binaryVars >>

Next ==
  \/ DoAddEntry
  \/ DoAddEntries
  \/ DoSetAllToUnknown
  \/ DoReadFromLLVMSymbolizer
  \/ DoWriteToLLVMSymbolizer
  \/ DoReadBack

Spec == Init /\ [][Next]_vars

\* ------------------------------ GetSymbolsFromBinary (SpecBinary)

\* Largest number of DSOs and of instrumented PCs per DSO.
MaxDso == 2
MaxPcsPerDso == 2

\* "we arbitrarily run 30 at once"
MaxThreads == 30

RECURSIVE SumPcs(_)
SumPcs(dsos) ==
  IF dsos = << >> THEN 0
  ELSE Head(dsos).num_instrumented_pcs + SumPcs(Tail(dsos))

Paths == {"", "/dev/null", "/usr/bin/llvm-symbolizer"}

LibFooPath == << "/", "l", "i", "b", "/", "l", "i", "b", "f", "o", "o", ".", "s", "o" >>

DsoInfo(n) == [path |-> LibFooPath, num_instrumented_pcs |-> n]

\* A DSO contributes one PC or the largest number of PCs.
DsoTables == SeqsUpTo({DsoInfo(n) : n \in {1, MaxPcsPerDso}}, MaxDso)

\* The PC table of size n: the k-th PC has address k.
PcTable(n) == [k \in 1..n |-> k]

\* What llvm-symbolizer prints for one address: the function and the location
\* are derived from the address, so that an entry tells which PC it is for.
SymbolOf(p) ==
  Rec(<< "f" >> \o NatToStr(p), << "s", ".", "c", ":" >> \o NatToStr(p) \o << ":", "1" >>)

\* The entry a table holds for the PC once that record is parsed.
SymbolValue(p) == << << "f" >> \o NatToStr(p), << "s", ".", "c" >>, p, 1 >>

\* How one run of the symbolizer subprocess can end: a non-zero exit code, or
\* exit code 0 with one record per PC, with the last record missing, or with
\* one record too many.
Outcomes == {"exit1", "exact", "fewer", "more"}

SymbolizerOutput(pc_infos, outcome) ==
  LET recs == [k \in 1..Len(pc_infos) |-> SymbolOf(pc_infos[k])] IN
  CASE outcome = "exact" -> Encode(recs)
    [] outcome = "fewer" -> Encode(SubSeq(recs, 1, Len(recs) - 1))
    [] outcome = "more" -> Encode(Append(recs, SymbolOf(0)))
    [] OTHER -> << >>

\* GetSymbolsFromOneDso from cmd.Execute() on: the local table it leaves, or
\* a fatal CHECK in the parser.
GetSymbolsFromOneDso(T, pc_infos, outcome) ==
  IF outcome = "exit1" THEN Ok(T)
  ELSE ReadFromLLVMSymbolizer(T, SymbolizerOutput(pc_infos, outcome))

\* Mutant: only the empty path disables symbolization.
SymbolizerDisabledEmptyOnly(path) == path = ""

\* symbolizer_path.empty() || symbolizer_path == "/dev/null"
SymbolizerDisabled(path) == path = "" \/ path = "/dev/null"

\* std::min(dso_table.size(), 30UL)
\* Mutant: one worker fewer than there are DSOs.
NumThreadsOneFewer == Min(Len(dso_table) - 1, MaxThreads)

NumThreads == Min(Len(dso_table), MaxThreads)

\* A task of the pool: its state, the PCs it was given, the id it drew from
\* unique_id, how its subprocess ended, and its place in completion order.
NoTask ==
  [state |-> "none", pc_infos |-> << >>, uid |-> -1, outcome |-> "none", rank |-> -1]

Finished == {d \in DOMAIN tasks : tasks[d].state \in {"done", "aborted"}}

Running == {d \in DOMAIN tasks : tasks[d].state = "running"}

AllTasksDone == \A d \in DOMAIN tasks : tasks[d].state = "done"

\* The tables in the order their tasks completed.
RECURSIVE ByCompletion(_, _)
ByCompletion(tables, r) ==
  IF r >= Len(tables) THEN << >>
  ELSE LET d == CHOOSE k \in DOMAIN tables : tasks[k].rank = r
       IN << tables[d] >> \o ByCompletion(tables, r + 1)

RECURSIVE MergeInOrder(_, _)
MergeInOrder(T, tables) ==
  IF tables = << >> THEN T
  ELSE MergeInOrder(AddEntries(T, Head(tables)), Tail(tables))

\* Mutant: the per-DSO tables are merged as their tasks complete.
MergeAllByCompletion(T, tables) == MergeInOrder(T, ByCompletion(tables, 0))

\* for (const auto &table : symbol_tables) AddEntries(table);
RECURSIVE MergeAll(_, _)
MergeAll(T, tables) ==
  IF tables = << >> THEN T
  ELSE MergeAll(AddEntries(T, Head(tables)), Tail(tables))

\* Mutant: the merged table is returned whatever its size.
FinalTableNoFallback(T, n) == T

\* if (size() != pc_table.size()) SetAllToUnknown(pc_table.size());
FinalTable(T, n) == IF size(T) # n THEN SetAllToUnknown(T, n) ELSE T

\* A freshly constructed table on which GetSymbolsFromBinary is called.
InitBinary ==
  /\ st = EmptyTable("this")
  /\ out = << >>
  /\ rt = EmptyTable("copy")
  /\ last = NoCall
  /\ pc = "entry"
  /\ fatal = FALSE
  /\ symbolizer_path \in Paths
  /\ dso_table \in DsoTables
  /\ \E n \in {SumPcs(dso_table) - 1, SumPcs(dso_table), SumPcs(dso_table) + 1} :
       n >= 0 /\ pc_table = PcTable(n)
  /\ symbol_tables = << >>
  /\ pc_idx_begin = 0
  /\ dso_id = 0
  /\ tasks = << >>
  /\ unique_id = 0

\* Lines 130-148: the degraded mode, or the locals and the thread pool.
Enter ==
  /\ pc = "entry" /\ ~fatal
  /\ IF SymbolizerDisabled(symbolizer_path)
     THEN /\ st' = SetAllToUnknown(st, Len(pc_table))
          /\ pc' = "done"
          /\ UNCHANGED << symbol_tables, tasks >>
     ELSE /\ symbol_tables' = [d \in 1..Len(dso_table) |-> EmptyTable(<< "dso", d >>)]
          /\ tasks' = [d \in 1..Len(dso_table) |-> NoTask]
          /\ pc' = "dispatch"
          /\ st' = st
  /\ UNCHANGED << out, rt, last, fatal, symbolizer_path, pc_table, dso_table,
                  pc_idx_begin, dso_id, unique_id >>

\* Mutant: pc_idx_begin is not advanced, so every DSO's range starts at 0.
ScheduleSameBegin ==
  /\ pc = "dispatch" /\ ~fatal
  /\ dso_id < Len(dso_table)
  /\ LET n == dso_table[dso_id + 1].num_instrumented_pcs IN
       IF pc_idx_begin + n > Len(pc_table)
       THEN /\ fatal' = TRUE
            /\ UNCHANGED << tasks, pc_idx_begin, dso_id >>
       ELSE /\ tasks' = [tasks EXCEPT ![dso_id + 1] =
                           [@ EXCEPT !.state = "queued",
                                     !.pc_infos = SubSeq(pc_table, pc_idx_begin + 1,
                                                         pc_idx_begin + n)]]
            /\ pc_idx_begin' = pc_idx_begin
            /\ dso_id' = dso_id + 1
            /\ fatal' = fatal
  /\ UNCHANGED << st, out, rt, last, pc, symbolizer_path, pc_table, dso_table,
                  symbol_tables, unique_id >>

\* One iteration of the dispatch loop (dso_id counts the DSOs handled).
Schedule ==
  /\ pc = "dispatch" /\ ~fatal
  /\ dso_id < Len(dso_table)
  /\ LET n == dso_table[dso_id + 1].num_instrumented_pcs IN
       IF pc_idx_begin + n > Len(pc_table)
       THEN /\ fatal' = TRUE
            /\ UNCHANGED << tasks, pc_idx_begin, dso_id >>
       ELSE /\ tasks' = [tasks EXCEPT ![dso_id + 1] =
                           [@ EXCEPT !.state = "queued",
                                     !.pc_infos = SubSeq(pc_table, pc_idx_begin + 1,
                                                         pc_idx_begin + n)]]
            /\ pc_idx_begin' = pc_idx_begin + n
            /\ dso_id' = dso_id + 1
            /\ fatal' = fatal
  /\ UNCHANGED << st, out, rt, last, pc, symbolizer_path, pc_table, dso_table,
                  symbol_tables, unique_id >>

\* Mutant: the merge loop sits inside the thread pool's scope, so it starts as
\* soon as the last task is scheduled.
EndDispatchSkipsJoin ==
  /\ pc = "dispatch" /\ ~fatal
  /\ dso_id = Len(dso_table)
  /\ pc' = "merge"
  /\ UNCHANGED << tableVars, fatal, binaryVars >>

\* The loop ends and the thread pool's scope closes: its destructor waits.
EndDispatch ==
  /\ pc = "dispatch" /\ ~fatal
  /\ dso_id = Len(dso_table)
  /\ pc' = "join"
  /\ UNCHANGED << tableVars, fatal, binaryVars >>

\* std::filesystem::path{dso_path}.filename(): what follows the last "/".
RECURSIVE Filename(_)
Filename(path) ==
  LET i == Find(path, "/", 1) IN
    IF i = 0 THEN path ELSE Filename(SubSeq(path, i + 1, Len(path)))

DotPcsDot == << ".", "p", "c", "s", "." >>
DotSymbolsDot == << ".", "s", "y", "m", "b", "o", "l", "s", "." >>

\* absl::StrCat(dso_basename, ".pcs.", unique_id_value), and with ".symbols.".
ScratchName(dso_path, infix, unique_id_value) ==
  Filename(dso_path) \o infix \o NatToStr(unique_id_value)

\* The DSOs whose driver has drawn its id.
Started == {d \in DOMAIN tasks : tasks[d].uid >= 0}

\* The scratch files of the driver of DSO d.
pcs_file(d) == ScratchName(dso_table[d].path, DotPcsDot, tasks[d].uid)
symbols_file(d) == ScratchName(dso_table[d].path, DotSymbolsDot, tasks[d].uid)

\* Mutant: the counter is read and written back in two steps, and the
\* increment of a concurrent driver is lost.
TaskBeginLostIncrement(d) ==
  /\ ~fatal
  /\ tasks[d].state = "queued"
  /\ Cardinality(Running) < NumThreads
  /\ tasks' = [tasks EXCEPT ![d] = [@ EXCEPT !.state = "running", !.uid = unique_id]]
  /\ unique_id' = IF Running = {} THEN unique_id + 1 ELSE unique_id
  /\ UNCHANGED << tableVars, pc, fatal, symbolizer_path, pc_table, dso_table,
                  symbol_tables, pc_idx_begin, dso_id >>

\* A free worker takes a queued task: GetSymbolsFromOneDso draws its id and
\* writes the PC list.
TaskBegin(d) ==
  /\ ~fatal
  /\ tasks[d].state = "queued"
  /\ Cardinality(Running) < NumThreads
  /\ tasks' = [tasks EXCEPT ![d] = [@ EXCEPT !.state = "running", !.uid = unique_id]]
  /\ unique_id' = unique_id + 1
  /\ UNCHANGED << tableVars, pc, fatal, symbolizer_path, pc_table, dso_table,
                  symbol_tables, pc_idx_begin, dso_id >>

\* Mutant: every task's lambda holds a reference to the first local table.
TaskRunSharedTable(d) ==
  /\ ~fatal
  /\ tasks[d].state = "running"
  /\ \E outcome \in Outcomes :
       /\ outcome = "fewer" => tasks[d].pc_infos # << >>
       /\ LET r == GetSymbolsFromOneDso(symbol_tables[1], tasks[d].pc_infos, outcome) IN
            /\ symbol_tables' = [symbol_tables EXCEPT ![1] = r.T]
            /\ fatal' = ~r.ok
            /\ tasks' = [tasks EXCEPT ![d] =
                            [@ EXCEPT !.state = IF r.ok THEN "done" ELSE "aborted",
                                      !.outcome = outcome,
                                      !.rank = Cardinality(Finished)]]
  /\ UNCHANGED << tableVars, pc, symbolizer_path, pc_table, dso_table,
                  pc_idx_begin, dso_id, unique_id >>

\* The subprocess ends and its output is parsed into the DSO's local table.
TaskRun(d) ==
  /\ ~fatal
  /\ tasks[d].state = "running"
  /\ \E outcome \in Outcomes :
       /\ outcome = "fewer" => tasks[d].pc_infos # << >>
       /\ LET r == GetSymbolsFromOneDso(symbol_tables[d], tasks[d].pc_infos, outcome) IN
            /\ symbol_tables' = [symbol_tables EXCEPT ![d] = r.T]
            /\ fatal' = ~r.ok
            /\ tasks' = [tasks EXCEPT ![d] =
                            [@ EXCEPT !.state = IF r.ok THEN "done" ELSE "aborted",
                                      !.outcome = outcome,
                                      !.rank = Cardinality(Finished)]]
  /\ UNCHANGED << tableVars, pc, symbolizer_path, pc_table, dso_table,
                  pc_idx_begin, dso_id, unique_id >>

\* The thread pool's destructor returns once every task has run.
Join ==
  /\ pc = "join" /\ ~fatal
  /\ AllTasksDone
  /\ pc' = "merge"
  /\ UNCHANGED << tableVars, fatal, binaryVars >>

\* Lines 164-166.
Merge ==
  /\ pc = "merge" /\ ~fatal
  /\ st' = MergeAll(st, symbol_tables)
  /\ pc' = "check"
  /\ UNCHANGED << out, rt, last, fatal, binaryVars >>

\* Mutant: without CHECK_EQ, a PC count that the DSOs do not cover is handled
\* by the size fallback.
CheckSizesNoCheck ==
  /\ pc = "check" /\ ~fatal
  /\ st' = FinalTable(st, Len(pc_table))
  /\ pc' = "done"
  /\ UNCHANGED << out, rt, last, fatal, binaryVars >>

\* Lines 167-173.
CheckSizes ==
  /\ pc = "check" /\ ~fatal
  /\ IF pc_idx_begin # Len(pc_table)
     THEN /\ fatal' = TRUE
          /\ UNCHANGED << st, pc >>
     ELSE /\ st' = FinalTable(st, Len(pc_table))
          /\ pc' = "done"
          /\ fatal' = fatal
  /\ UNCHANGED << out, rt, last, binaryVars >>

NextBinary ==
  \/ Enter
  \/ Schedule
  \/ EndDispatch
  \/ \E d \in DOMAIN tasks : TaskBegin(d)
  \/ \E d \in DOMAIN tasks : TaskRun(d)
  \/ Join
  \/ Merge
  \/ CheckSizes

SpecBinary == InitBinary /\ [][NextBinary]_vars

\* The calls in which no fatal check can fire: the symbolizer is disabled, or
\* the DSOs' PC counts add up to the size of the PC table.
InitNoCheckFires ==
  /\ InitBinary
  /\ SymbolizerDisabled(symbolizer_path) \/ SumPcs(dso_table) = Len(pc_table)

\* Such a call does not halt while a step of it is possible: the calling
\* thread keeps running, a free worker takes a waiting task, and every
\* symbolizer subprocess ends.
FairSpecBinary == InitNoCheckFires /\ [][NextBinary]_vars /\ WF_vars(NextBinary)

\* ------------------------------------------------- claims on SpecBinary

UnknownValue == << << "?" >>, << "?" >>, 0, 0 >>

AllUnknown(T) == \A i \in DOMAIN T.entries_ : EntryValue(T.entries_[i]) = UnknownValue

UsablePath == symbolizer_path \notin {"", "/dev/null"}

SomeTaskFailed == \E d \in DOMAIN tasks : tasks[d].outcome \in {"exit1", "fewer", "more"}

AllTasksExact == \A d \in DOMAIN tasks : tasks[d].outcome = "exact"

\* C1: whenever GetSymbolsFromBinary has returned, the symbol table has as
\* many entries as the PC table, whatever the drivers' outcomes were and also
\* when the symbolizer path is empty or disabled.
C1_SizeEqualsPcTable == pc = "done" => size(st) = Len(pc_table)

\* C1 witness: the call returned after one driver exited non-zero and another
\* printed one record too many.
C1_Witness ==
  /\ pc = "done" /\ UsablePath /\ Len(pc_table) >= 2
  /\ \E d \in DOMAIN tasks : tasks[d].outcome = "exit1"
  /\ \E d \in DOMAIN tasks : tasks[d].outcome = "more"

\* C2 (as claimed): if any driver failed, the table returned holds only
\* unknown entries, one per PC.
C2_FailureGivesAllUnknown ==
  (pc = "done" /\ SomeTaskFailed) => (size(st) = Len(pc_table) /\ AllUnknown(st))

\* C3: when every driver succeeds, entry i of the returned table is the symbol
\* of PC i, whatever order the tasks ran and completed in.
C3_MergedInDsoOrder ==
  (pc = "done" /\ UsablePath /\ AllTasksExact) =>
    Values(st) = [i \in 1..Len(pc_table) |-> SymbolValue(pc_table[i])]

\* C3 witness: both drivers succeeded and the second DSO's task completed
\* before the first one's.
C3_Witness ==
  /\ pc = "done" /\ UsablePath /\ AllTasksExact
  /\ Len(tasks) = 2 /\ tasks[2].rank < tasks[1].rank
  /\ Len(pc_table) >= 3

\* C4: with an empty or disabled symbolizer path every entry of the returned
\* table is the unknown sentinel ("?", "?", 0, 0), one per PC.
C4_DisabledGivesUnknown ==
  (pc = "done" /\ symbolizer_path \in {"", "/dev/null"}) =>
    (size(st) = Len(pc_table) /\ AllUnknown(st))

\* C4 witness: the call returned for the path "/dev/null" and several PCs.
C4_Witness ==
  pc = "done" /\ symbolizer_path = "/dev/null" /\ Len(pc_table) >= 2 /\ dso_table # << >>

\* C5 (as claimed): a driver whose subprocess exited non-zero or whose output
\* had another number of records than PCs requested returns normally and
\* leaves fewer entries than PCs requested, or none.
C5_FailedDriverAbandons ==
  \A d \in DOMAIN tasks :
    tasks[d].outcome \in {"exit1", "fewer", "more"} =>
      /\ tasks[d].state = "done"
      /\ \/ size(symbol_tables[d]) < Len(tasks[d].pc_infos)
         \/ size(symbol_tables[d]) = 0

\* ------------------------------------------------------- claims on Spec

\* The last k values of a table.
LastValues(T, k) == SubSeq(Values(T), size(T) - k + 1, size(T))

\* A file text that the codec reproduces: no "?" and none of the prefixes
\* the reader removes.
PlainFile(file) ==
  /\ ~StrContains(file, "?")
  /\ ~StartsWith(file, ProcSelfCwd)
  /\ ~StartsWith(file, DotSlash)

AllPlainFiles(T) == \A i \in DOMAIN T.entries_ : PlainFile(T.entries_[i].file.text)

\* C6 (as claimed): writing any table and reading the text into an empty
\* table gives an equal table.
C6_RoundTrip == pc = "readback" => (~fatal /\ TableEq(rt, st))

\* C6 (amended): writing a table and reading the text into an empty table
\* gives an equal table when no entry's file text contains "?" or starts
\* with a prefix the reader strips.
C6_RoundTripPlainFiles ==
  (pc = "readback" /\ AllPlainFiles(st)) => (~fatal /\ TableEq(rt, st))

\* C6 witness: a table of two different entries, one without line and
\* column, was written and read back.
C6_Witness ==
  /\ pc = "readback" /\ AllPlainFiles(st) /\ size(st) = 2
  /\ st.entries_[1].line = -1 /\ st.entries_[2].line # -1

\* The stream of the two records foo, /src/a.c:10:3 and bar, /src/b.c:?.
Scenario == << Rec(foo, LocA), Rec(bar, LocB) >>

ScenarioRead == last.op = "Read" /\ last.recs = Scenario /\ last.tail = << >>

UnknownLocAdded == last.op = "AddEntry" /\ StrContains(last.loc, "?")

\* C7 (as claimed): the two records parse to {foo, /src/a.c, 10, 3} and
\* {bar, /src/b.c, 0, 0}; a location with a "?" is stored as its file part
\* with line and column 0.
C7_UnknownLocationKeepsFilePart ==
  /\ ScenarioRead =>
       /\ ~fatal
       /\ LastValues(st, 2) = << << foo, FileA, 10, 3 >>, << bar, FileB, 0, 0 >> >>
  /\ UnknownLocAdded =>
       /\ ~fatal
       /\ LastValues(st, 1) = << << last.func, StrSplit(last.loc, ":")[1], 0, 0 >> >>

\* C7 (amended): the two records parse to {foo, /src/a.c, 10, 3} and
\* {bar, /src/b.c:?, 0, 0}; a location with a "?" is stored whole as the
\* file text, with line and column 0.
C7_UnknownLocationKeptWhole ==
  /\ ScenarioRead =>
       /\ ~fatal
       /\ LastValues(st, 2) = << << foo, FileA, 10, 3 >>, << bar, LocB, 0, 0 >> >>
  /\ UnknownLocAdded =>
       /\ ~fatal
       /\ LastValues(st, 1) = << << last.func, last.loc, 0, 0 >> >>

\* C7 witness: the two records have been read into the table.
C7_Witness == ScenarioRead /\ size(st) = 2

InternerHasNoDuplicates ==
  \A n, m \in st.table_ : n.text = m.text => n = m

\* C8 (as claimed): entries with equal function texts reference the same
\* stored string, likewise for file texts, and the interner holds one string
\* per text.
C8_EqualTextsShareStorage ==
  /\ \A i, j \in DOMAIN st.entries_ :
       /\ st.entries_[i].func.text = st.entries_[j].func.text
            => st.entries_[i].func.addr = st.entries_[j].func.addr
       /\ st.entries_[i].file.text = st.entries_[j].file.text
            => st.entries_[i].file.addr = st.entries_[j].file.addr
  /\ InternerHasNoDuplicates

Interned(ref) == ref.addr # StaticAddr

\* C8 (amended): entries with equal function texts that both reference the
\* interner reference the same stored string, likewise for file texts, and
\* the interner holds one string per text; the entries SetAllToUnknown wrote
\* reference the static "?" instead.
C8_InternedTextsShareStorage ==
  /\ \A i, j \in DOMAIN st.entries_ :
       /\ ( /\ st.entries_[i].func.text = st.entries_[j].func.text
            /\ Interned(st.entries_[i].func) /\ Interned(st.entries_[j].func) )
            => st.entries_[i].func.addr = st.entries_[j].func.addr
       /\ ( /\ st.entries_[i].file.text = st.entries_[j].file.text
            /\ Interned(st.entries_[i].file) /\ Interned(st.entries_[j].file) )
            => st.entries_[i].file.addr = st.entries_[j].file.addr
  /\ InternerHasNoDuplicates

\* C8 witness: two entries with the same function text and different file
\* texts, both interned.
C8_Witness ==
  /\ size(st) = 2
  /\ st.entries_[1].func.text = st.entries_[2].func.text
  /\ st.entries_[1].file.text # st.entries_[2].file.text
  /\ Interned(st.entries_[1].func) /\ Interned(st.entries_[2].func)

\* What a well-formed record is parsed to.
ExpectedValue(rec) ==
  CASE rec = Rec(foo, LocA) -> << foo, FileA, 10, 3 >>
    [] rec = Rec(bar, LocB) -> << bar, LocB, 0, 0 >>
    [] rec = Rec(foo, LocCwd) -> << foo, LocFileOnly, 7, 1 >>

AllGood(recs) == \A k \in DOMAIN recs : recs[k] \in GoodRecords

\* C9: reading a stream of complete well-formed records followed by fewer
\* than three lines appends one entry per complete record, in stream order,
\* keeps the entries the table had, and raises no error.
C9_OneEntryPerCompleteRecord ==
  [][(last'.op = "Read" /\ AllGood(last'.recs) /\ last'.tail \in ShortTails) =>
       /\ ~fatal'
       /\ Values(st') = Values(st) \o [k \in DOMAIN last'.recs |-> ExpectedValue(last'.recs[k])]
    ]_vars

\* C9 witness: a stream of one complete record and two further lines was read
\* into a table that held an entry.
C9_Witness ==
  /\ last.op = "Read" /\ ~fatal
  /\ Len(last.recs) = 1 /\ last.tail = TailFuncLocNl
  /\ size(st) = 2

\* C10: AddEntry with a location without "?" that has more than three parts,
\* or a line or column field that is no integer, aborts and adds no entry;
\* reading a record whose third line is not empty aborts.
C10_MalformedIsFatal ==
  [][/\ (last'.op = "AddEntry" /\ last'.loc \in BadLocs) =>
          (fatal' /\ st'.entries_ = st.entries_)
     /\ (last'.op = "Read" /\ AllGood(last'.recs) /\ last'.tail \in LongTails) =>
          (fatal' /\ size(st') = size(st) + Len(last'.recs))
    ]_vars

\* C10 witness: the process aborted in AddEntry on a four-part location,
\* called on a table holding an entry.
C10_Witness ==
  fatal /\ last.op = "AddEntry" /\ last.loc = LocFourParts /\ size(st) = 1


\* C11: AddEntries(other) leaves the table holding the entries it had,
\* unchanged and in place, followed by other's entries in other's order with
\* their function, file, line and column; so merging A and then B into an
\* empty table gives A's entries followed by B's.
C11_AddEntriesAppendsInOrder ==
  [][last'.op = "AddEntries" =>
       /\ SubSeq(st'.entries_, 1, size(st)) = st.entries_
       /\ Values(st') = Values(st) \o Values(last'.other)
       /\ fatal' = fatal
    ]_vars

\* C11 witness: a table holding one entry was merged into a table that held
\* a different entry.
C11_Witness ==
  /\ last.op = "AddEntries" /\ last.other = OtherOne
  /\ size(st) = 2
  /\ EntryValue(st.entries_[1]) # EntryValue(st.entries_[2])
  /\ EntryValue(st.entries_[2]) = EntryValue(OtherOne.entries_[1])


\* ------------------------------------------- claims on GetSymbolsFromBinary

\* C12: the merge loop starts only when no scheduled DSO task is waiting or
\* running: once the first per-DSO table is about to be read, every DSO of
\* the list has a task, and each of them was started and has run to its end.
C12_MergeAfterAllTasks ==
  (UsablePath /\ pc \in {"merge", "check", "done"}) =>
     /\ Len(tasks) = Len(dso_table)
     /\ \A d \in DOMAIN tasks :
          /\ tasks[d].state = "done"
          /\ tasks[d].uid >= 0
          /\ tasks[d].outcome \in Outcomes

\* C12 witness: the merge is about to start after two tasks ran, the second
\* DSO's task having finished first.
C12_Witness ==
  /\ pc = "merge" /\ ~fatal
  /\ Len(tasks) = 2
  /\ tasks[2].rank < tasks[1].rank


\* The tasks a worker thread holds or will hold: scheduled and not yet ended.
Pending == {d \in DOMAIN tasks : tasks[d].state \in {"queued", "running"}}

\* C13: a per-DSO local table changes only in a step of its own DSO's task
\* (the vector of local tables is built by the caller before any task
\* exists); the final table changes only in steps of the calling thread taken
\* while no task is waiting or running; and the caller reads the local tables
\* for the merge only when no task is running. So no table is touched by two
\* threads at once.
C13_EachTableHasOneWriter ==
  [][/\ DOMAIN symbol_tables' # DOMAIN symbol_tables => (pc = "entry" /\ tasks = << >>)
     /\ \A d \in DOMAIN symbol_tables \cap DOMAIN symbol_tables' :
          symbol_tables'[d] # symbol_tables[d] =>
             /\ tasks[d].state = "running"
             /\ tasks'[d].state \in {"done", "aborted"}
             /\ \A e \in DOMAIN symbol_tables \ {d} :
                  /\ symbol_tables'[e] = symbol_tables[e]
                  /\ tasks'[e] = tasks[e]
             /\ st' = st
     /\ st' # st => (pc \in {"entry", "merge", "check"} /\ Pending = {})
     /\ pc = "merge" => Pending = {}
    ]_vars

\* C13 witness: while the first DSO's task is still running, the second's
\* has filled its own local table and left the first's empty.
C13_Witness ==
  /\ Len(tasks) = 2
  /\ tasks[1].state = "running" /\ tasks[2].state = "done"
  /\ size(symbol_tables[2]) > 0 /\ size(symbol_tables[1]) = 0
  /\ size(st) = 0


\* C14: the drivers started so far, concurrent ones and ones for DSOs of the
\* same file name included, drew pairwise different values of the counter, so
\* no scratch-file name of one driver is a scratch-file name of another; and
\* the PC-list file and the output file of one driver have different names.
C14_ScratchNamesDistinct ==
  /\ \A d \in Started : tasks[d].uid < unique_id
  /\ \A d \in Started : pcs_file(d) # symbols_file(d)
  /\ \A d, e \in Started :
       d # e =>
         /\ tasks[d].uid # tasks[e].uid
         /\ {pcs_file(d), symbols_file(d)} \cap {pcs_file(e), symbols_file(e)} = {}

\* C14 witness: two drivers for DSOs of the same file name run at the same
\* time, the second DSO's having drawn its id first.
C14_Witness ==
  /\ Len(tasks) = 2
  /\ tasks[1].state = "running" /\ tasks[2].state = "running"
  /\ Filename(dso_table[1].path) = Filename(dso_table[2].path)
  /\ tasks[2].uid = 0 /\ tasks[1].uid = 1
  /\ pcs_file(1) = << "l", "i", "b", "f", "o", "o", ".", "s", "o", ".", "p", "c", "s", ".", "1" >>


\* The PCs of the DSOs before DSO d, and those up to and including it.
RangeBegin(d) == SumPcs(SubSeq(dso_table, 1, d - 1))
RangeEnd(d) == SumPcs(SubSeq(dso_table, 1, d))

Scheduled == {d \in DOMAIN tasks : tasks[d].state # "none"}

\* C15: with a usable symbolizer path, the driver of DSO d is given the PCs
\* of the table from index sum(counts of the DSOs before d) on, as many as
\* the DSO's own count, so the ranges are disjoint and follow the DSO list;
\* and a DSO whose range would end beyond the PC table is never scheduled:
\* the call stops fatally in the dispatch loop and never returns a table.
C15_ContiguousRangesOrFatal ==
  UsablePath =>
    /\ \A d \in Scheduled :
         /\ RangeEnd(d) <= Len(pc_table)
         /\ tasks[d].pc_infos = SubSeq(pc_table, RangeBegin(d) + 1, RangeEnd(d))
         /\ Len(tasks[d].pc_infos) = dso_table[d].num_instrumented_pcs
         /\ \A e \in 1..(d - 1) : e \in Scheduled
    /\ \A d \in Scheduled, e \in Scheduled :
         d < e => RangeEnd(d) <= RangeBegin(e)
    /\ \A d \in DOMAIN dso_table :
         RangeEnd(d) > Len(pc_table) =>
           /\ d \notin Scheduled
           /\ pc \in {"entry", "dispatch"}
           /\ size(st) = 0
    /\ (fatal /\ pc = "dispatch") =>
         /\ dso_id < Len(dso_table)
         /\ RangeEnd(dso_id + 1) > Len(pc_table)
         /\ Scheduled = 1..dso_id

\* C15 witness: the first DSO's driver was scheduled with its range and the
\* second DSO's range ends beyond the PC table, so the call stopped fatally
\* with the second driver never scheduled.
C15_Witness ==
  /\ UsablePath /\ fatal /\ pc = "dispatch"
  /\ Len(dso_table) = 2
  /\ Scheduled = {1}
  /\ tasks[1].pc_infos = SubSeq(pc_table, 1, dso_table[1].num_instrumented_pcs)
  /\ RangeEnd(2) > Len(pc_table)


\* ----------------------------------------------------- claims on AddEntry

\* C16: AddEntry with a location that has a "?" anywhere in it adds exactly
\* one entry, of the given function with line 0 and column 0, leaves the
\* entries before it alone and is not fatal, however many ":"-separated
\* parts the location has and whether or not its other fields are numeric.
C16_UnknownLocationNeverFatal ==
  [][(last'.op = "AddEntry" /\ StrContains(last'.loc, "?")) =>
       /\ ~fatal'
       /\ size(st') = size(st) + 1
       /\ SubSeq(st'.entries_, 1, size(st)) = st.entries_
       /\ st'.entries_[size(st')].func.text = last'.func
       /\ st'.entries_[size(st')].line = 0
       /\ st'.entries_[size(st')].col = 0
    ]_vars

\* C16 witness: a location of five parts with a non-numeric line field and a
\* "?" at its end was added as one entry with line and column 0.
C16_Witness ==
  /\ last.op = "AddEntry" /\ last.loc = LocManyParts
  /\ Len(StrSplit(last.loc, ":")) = 5
  /\ ~SimpleAtoi(StrSplit(last.loc, ":")[2]).ok
  /\ ~fatal
  /\ size(st) = 2
  /\ st.entries_[2].line = 0 /\ st.entries_[2].col = 0


\* The file, line and column the claim gives for each well-formed location
\* of the inputs, written out by hand.
FileDotSlashA == << ".", "/", "a", ".", "c" >>

ExpectedPlain(loc) ==
  CASE loc = LocA -> << FileA, 10, 3 >>
    [] loc = LocFileOnly -> << LocFileOnly, -1, -1 >>
    [] loc = LocFileLine -> << LocFileOnly, 7, -1 >>
    [] loc = LocDotSlash -> << FileDotSlashA, 7, 1 >>
    [] loc = LocNegCol -> << LocFileOnly, 7, -2 >>

\* A location with no "?", of one to three parts, whose second and third
\* parts, when present, are integers.
WellFormed(loc) ==
  LET split == StrSplit(loc, ":") IN
    /\ ~StrContains(loc, "?")
    /\ Len(split) \in 1..3
    /\ \A i \in 2..Len(split) : SimpleAtoi(split[i]).ok

\* C17: AddEntry with a location that has no "?", one to three parts and
\* numeric fields adds exactly one entry and is not fatal: its file is the
\* first part, its line the integer of the second part or -1 when there is
\* one part, its column the integer of the third part or -1 when there are
\* fewer than three.
C17_WellFormedLocationParsed ==
  [][(last'.op = "AddEntry" /\ WellFormed(last'.loc)) =>
       /\ last'.loc \in PlainLocs
       /\ ~fatal'
       /\ size(st') = size(st) + 1
       /\ SubSeq(st'.entries_, 1, size(st)) = st.entries_
       /\ EntryValue(st'.entries_[size(st')]) = << last'.func >> \o ExpectedPlain(last'.loc)
    ]_vars

\* C17 witness: a location of one part and then one of three parts were added.
C17_Witness ==
  /\ last.op = "AddEntry" /\ last.loc = LocA /\ ~fatal
  /\ size(st) = 2
  /\ EntryValue(st.entries_[1]) = << bar, LocFileOnly, -1, -1 >>
  /\ EntryValue(st.entries_[2]) = << foo, FileA, 10, 3 >>


\* ------------------------------------------------- claims on the interner

\* A reference of table T is valid: it is the static "?" literal, or it is a
\* string that T's own interner stores now, at the address it stores it.
ValidRef(T, ref) ==
  \/ ref = StaticRef(<< "?" >>)
  \/ /\ ref \in T.table_
     /\ ref.addr[1] = T.heap

AllRefsValid(T) ==
  /\ \A i \in DOMAIN T.entries_ :
       ValidRef(T, T.entries_[i].func) /\ ValidRef(T, T.entries_[i].file)
  /\ \A n, k \in T.table_ : n.addr = k.addr => n = k

\* C18: after any sequence of AddEntry, AddEntries, ReadFromLLVMSymbolizer
\* and SetAllToUnknown, the function and the file reference of every entry is
\* either a string that the same table's interner stores now or the static
\* "?" literal: no entry points into the interner that SetAllToUnknown
\* cleared, nor into the interner of a table that was merged in.
C18_ReferencesStayValid == AllRefsValid(st) /\ AllRefsValid(rt)

\* C18 witness: an entry was added, SetAllToUnknown replaced it by an unknown
\* entry and cleared the interner, and a table was then merged in: the first
\* entry references the static literal, the second this table's interner, in
\* storage that the cleared strings had used.
C18_Witness ==
  /\ last.op = "AddEntries" /\ last.other = OtherOne
  /\ size(st) = 2
  /\ st.entries_[1].func = StaticRef(<< "?" >>)
  /\ Interned(st.entries_[2].func)
  /\ st.entries_[2].func.addr = << st.heap, 1 >>
  /\ st.entries_[2].func.addr # OtherOne.entries_[1].func.addr


\* The entries of the local tables, in DSO order.
RECURSIVE LocalValues(_)
LocalValues(tables) ==
  IF tables = << >> THEN << >>
  ELSE Values(Head(tables)) \o LocalValues(Tail(tables))

\* The DSOs' PC counts add up to less than the size of the PC table.
DsosCoverTooFew == UsablePath /\ SumPcs(dso_table) < Len(pc_table)

\* C19: with a usable symbolizer path and DSO PC counts that add up to less
\* than the size of the PC table, GetSymbolsFromBinary never returns, so never
\* with the all-unknown table: the step after the merge is fatal, and that
\* is the only fatal stop, reached when every DSO's driver has run and the
\* local tables have been merged into the final table.
C19_TooFewPcsIsFatalAfterMerge ==
  [][DsosCoverTooFew =>
       /\ pc' # "done"
       /\ pc = "check" => fatal'
       /\ fatal' =>
            /\ pc' = "check"
            /\ Len(tasks') = Len(dso_table)
            /\ \A d \in DOMAIN tasks' : tasks'[d].state = "done"
            /\ Values(st') = LocalValues(symbol_tables')
    ]_vars

\* C19 witness: two DSOs of one PC each and a PC table of three; both drivers
\* ran, their tables were merged, and the call then stopped fatally.
C19_Witness ==
  /\ DsosCoverTooFew /\ fatal /\ pc = "check"
  /\ Len(dso_table) = 2 /\ Len(pc_table) = 3
  /\ AllTasksExact
  /\ size(st) = 2


\* ------------------------------------------ claims on FairSpecBinary

\* GetSymbolsFromBinary has returned, every DSO's task having run to its end.
Returned ==
  /\ pc = "done"
  /\ UsablePath => /\ Len(tasks) = Len(dso_table)
                   /\ \A d \in DOMAIN tasks : tasks[d].state = "done"

\* A task moves from waiting to running to ended, draws one id, and once
\* ended is never run again.
TaskRunsOnce(d) ==
  /\ tasks[d].state = "queued" => tasks'[d].state \in {"queued", "running"}
  /\ tasks[d].state = "running" => tasks'[d].state \in {"running", "done", "aborted"}
  /\ tasks[d].state \in {"done", "aborted"} => tasks'[d] = tasks[d]
  /\ tasks[d].uid >= 0 => tasks'[d].uid = tasks[d].uid

====
